---- MODULE Spec2Model ----
(***************************************************************************)
(* dj-eav: an Entity-Attribute-Value layer over Django.                    *)
(*                                                                         *)
(* The model follows one Entity ("book") with its Attributes, the Value    *)
(* table of that Entity, and the ObjectQuerySet that build_eav_class       *)
(* attaches to the Entity's Record class as `objects`, together with the   *)
(* Query it owns.  Every public method of ObjectQuerySet is one action.    *)
(* The Django ORM calls the code makes (filter / exclude / bulk_create /   *)
(* bulk_update on Value) are modelled by what they do for the arguments    *)
(* the code passes.                                                        *)
(***************************************************************************)
EXTENDS Integers, Sequences, FiniteSets, TLC

\* Number of row identifiers uuid4() draws for new rows (the real space is
\* 2^122), and so the number of logical rows the table can come to hold.
MaxRows == 1

\* Largest number of keyword arguments in one call, and of criteria (filters
\* and exclusions together) a builder accumulates.
MaxCriteria == 2

-----------------------------------------------------------------------------
(* Python values: a type name and a printable representation.              *)

PyNone == [type |-> "NoneType", repr |-> "None"]

PyStr(s) == [type |-> "str", repr |-> s]

PyInt(s) == [type |-> "int", repr |-> s]

PyBool(s) == [type |-> "bool", repr |-> s]

\* isinstance(value, field_type): bool is a subclass of int
IsInstance(value, field_type) ==
    \/ value.type = field_type
    \/ value.type = "bool" /\ field_type = "int"

\* bool(x) for the values in use: None and the empty string are falsy.
Truthy(v) == v # PyNone /\ v # PyStr("")

RowIdPool == <<"r1", "r2", "r3", "r4">>

RowIds == {RowIdPool[i] : i \in 1..MaxRows}

\* The row identifiers a caller may pass: those of rows, and one no create
\* returns.
IdArgs == RowIds \cup {"r0"}

-----------------------------------------------------------------------------
(* Python dicts keep insertion order: a sequence of <<key, value>> pairs   *)
(* with distinct keys.                                                     *)

DictKeys(d) == {d[i][1] : i \in 1..Len(d)}

DictHas(d, k) == k \in DictKeys(d)

\* d.get(k): None when the key is absent.
DictGet(d, k) ==
    IF DictHas(d, k)
    THEN (CHOOSE p \in {d[i] : i \in 1..Len(d)} : p[1] = k)[2]
    ELSE PyNone

\* d.pop(k)
DictPop(d, k) == SelectSeq(d, LAMBDA p : p[1] # k)

\* d[k] = v: an existing key keeps its position, a new key goes last.
DictSet(d, k, v) ==
    IF DictHas(d, k)
    THEN [i \in 1..Len(d) |-> IF d[i][1] = k THEN <<k, v>> ELSE d[i]]
    ELSE Append(d, <<k, v>>)

RECURSIVE DictUpdate(_, _)
\* d.update(other)
DictUpdate(d, other) ==
    IF other = <<>> THEN d
    ELSE DictUpdate(DictSet(d, other[1][1], other[1][2]), Tail(other))

-----------------------------------------------------------------------------
(* The Schema Catalog: Entity "book" with a required string attribute      *)
(* `title` and an optional integer attribute `pages`.                      *)

Attributes == <<"title", "pages">>

AttrSlugs == {Attributes[i] : i \in 1..Len(Attributes)}

data_type(slug) == IF slug = "pages" THEN "integer" ELSE "string"

required(slug) == slug = "title"

\* Entity._get_fields: the synthetic id field first, then one per Attribute.
GetFields ==
    <<[name |-> "id", data_type |-> "string", required |-> TRUE]>> \o
    [i \in 1..Len(Attributes) |->
        [name |-> Attributes[i], data_type |-> data_type(Attributes[i]),
         required |-> required(Attributes[i])]]

\* Query.fields_map: field name -> data type
fields_map == [n \in {GetFields[i].name : i \in 1..Len(GetFields)} |->
    (CHOOSE f \in {GetFields[i] : i \in 1..Len(GetFields)} : f.name = n).data_type]

\* DATA_TYPES_MAP.get(data_type, str), as the name of the Python type
DATA_TYPES_MAP(dt) == IF dt = "integer" THEN "int" ELSE "str"

-----------------------------------------------------------------------------
(* The Value table.  One record per Value: the attribute's slug, the row   *)
(* identifier and the typed columns the Entity's data types use.  The      *)
(* unused columns of a Value are NULL (PyNone).                            *)

ValueColumns == {"value_string", "value_integer"}

\* Value(entity=self, attribute=attr, row_id=row_id): every typed column NULL
NewValue(slug, row_id) ==
    [attribute |-> slug, row_id |-> row_id,
     value_string |-> PyNone, value_integer |-> PyNone]

\* Value._set_value: setattr(self, "value_" + data_type, value)
SetValue(v, value) ==
    IF data_type(v.attribute) = "integer"
    THEN [v EXCEPT !.value_integer = value]
    ELSE [v EXCEPT !.value_string = value]

\* Value._get_value: getattr(self, "value_" + data_type)
GetValue(v) ==
    IF data_type(v.attribute) = "integer" THEN v.value_integer ELSE v.value_string

\* The strings int() parses.
Numerals == {"412"}

\* What a column stores for a Python value (Field.get_prep_value):
\* CharField stores str(value); IntegerField stores int(value) and raises
\* ValueError for a string that is no number.  None is stored as NULL.
PrepError(column, value) ==
    /\ column = "value_integer"
    /\ value # PyNone
    /\ value.repr \notin Numerals

PrepValue(column, value) ==
    IF value = PyNone THEN PyNone
    ELSE IF column = "value_integer" THEN PyInt(value.repr)
    ELSE PyStr(value.repr)

\* The Value as the table holds it after an INSERT.
StoredValue(v) ==
    [v EXCEPT !.value_string = PrepValue("value_string", v.value_string),
              !.value_integer = PrepValue("value_integer", v.value_integer)]

ValuePrepError(v) ==
    \/ PrepError("value_string", v.value_string)
    \/ PrepError("value_integer", v.value_integer)

\* One keyword of Value.objects.filter(**kw) / exclude(**kw), on one Value.
\* A lookup with None is IS NULL; all keywords of one call apply to the
\* same Value record.
LookupMatches(v, key, given) ==
    CASE key = "attribute__slug" -> v.attribute = given.repr
      [] key = "row_id" -> v.row_id = given.repr
      [] key = "value_string" -> v.value_string = PrepValue(key, given)
      [] key = "value_integer" -> v.value_integer = PrepValue(key, given)

LookupError(kw) ==
    \E i \in 1..Len(kw) : kw[i][1] \in ValueColumns /\ PrepError(kw[i][1], kw[i][2])

MatchesAll(v, kw) == \A i \in 1..Len(kw) : LookupMatches(v, kw[i][1], kw[i][2])

\* entity.values.filter(**filters).exclude(**excludes): exclude() with no
\* keywords excludes nothing.
FilterExclude(values, filters, excludes) ==
    {v \in values :
        /\ MatchesAll(v, filters)
        /\ ~(excludes # <<>> /\ MatchesAll(v, excludes))}

-----------------------------------------------------------------------------
(* class Query: the criteria a builder has accumulated.                    *)

\* Query.__init__
NewQuery ==
    [query |-> <<>>, negated_query |-> <<>>,
     query_id |-> PyNone, negated_query_id |-> PyNone]

\* Query.get_id: the key holding a row identifier, and the identifier
get_id(queries) ==
    IF Truthy(DictGet(queries, "id")) THEN <<"id", DictGet(queries, "id")>>
    ELSE IF Truthy(DictGet(queries, "pk")) THEN <<"pk", DictGet(queries, "pk")>>
    ELSE <<"NotImplementedError", PyNone>>

\* The keys of a dict that fields_map does not know, in dict order.
UnknownKeys(d) == SelectSeq(d, LAMBDA p : p[1] \notin DOMAIN fields_map)

\* Query.__validate_query: the filters first, then the exclusions; the dict
\* holding the first unknown key is emptied and FieldError is raised.
validate_query(q) ==
    IF UnknownKeys(q.query) # <<>>
    THEN [q |-> [q EXCEPT !.query = <<>>], err |-> "FieldError"]
    ELSE IF UnknownKeys(q.negated_query) # <<>>
    THEN [q |-> [q EXCEPT !.negated_query = <<>>], err |-> "FieldError"]
    ELSE [q |-> q, err |-> "none"]

\* Query.update(negate=..., **kwargs): the row identifier of either kind of
\* call is written to negated_query_id.
QueryUpdate(q, kwargs, negate) ==
    LET key == get_id(kwargs)[1]
        id  == get_id(kwargs)[2]
        rest == IF Truthy(id) THEN DictPop(kwargs, key) ELSE kwargs
        q1 == IF Truthy(id) THEN [q EXCEPT !.negated_query_id = id] ELSE q
        q2 == IF negate
              THEN [q1 EXCEPT !.negated_query = DictUpdate(q1.negated_query, rest)]
              ELSE [q1 EXCEPT !.query = DictUpdate(q1.query, rest)]
    IN  validate_query(q2)

RECURSIVE PrepareDict(_, _)
\* One loop of Query.__prepare_query: every criterion assigns the same
\* "attribute__slug" key and the key of its type's column.
PrepareDict(acc, items) ==
    IF items = <<>> THEN acc
    ELSE LET key == items[1][1]
             value == items[1][2]
             a1 == DictSet(acc, "attribute__slug", PyStr(key))
             a2 == DictSet(a1, "value_" \o fields_map[key], value)
         IN  PrepareDict(a2, Tail(items))

\* Query.prepare: the compiled <<filters, exclude>>
prepare(q) ==
    LET filters == PrepareDict(<<>>, q.query)
        exclude == PrepareDict(<<>>, q.negated_query)
        exclude1 == IF Truthy(q.negated_query_id)
                    THEN DictSet(exclude, "row_id", q.negated_query_id)
                    ELSE exclude
        filters1 == IF Truthy(q.query_id)
                    THEN DictSet(filters, "row_id", q.query_id)
                    ELSE filters
    IN  <<filters1, exclude1>>

-----------------------------------------------------------------------------
(* The Record class build_eav_class makes: a Field per entry of             *)
(* Entity._get_fields, and the id Field.                                    *)

\* build_eav_class: __fields__ of the Record class, by name
RecordFields ==
    LET fs == {GetFields[i] : i \in 1..Len(GetFields)}
        init_field(f) == [name |-> f.name, field_type |-> DATA_TYPES_MAP(f.data_type),
                          required |-> f.required]
    IN  [n \in {f.name : f \in fs} \cup {"id"} |->
            IF n = "id" THEN [name |-> "id", field_type |-> "str", required |-> TRUE]
            ELSE init_field(CHOOSE f \in fs : f.name = n)]

\* Field.__set__: the error assigning value raises, or "none"
FieldSetError(field, value) ==
    IF value = PyNone /\ field.required THEN "ValueError: field is required"
    ELSE IF value # PyNone /\ ~IsInstance(value, field.field_type) THEN "TypeError"
    ELSE "none"

\* An instance before any assignment: Field.__get__ gives the default, None.
EmptyRecord == [n \in DOMAIN RecordFields |-> PyNone]

RECURSIVE SetValues(_, _)
\* DynamicClass.__init__(**kwargs): setattr in keyword order, stopping at
\* the first assignment that raises.
SetValues(obj, kwargs) ==
    IF kwargs = <<>> THEN [obj |-> obj, err |-> "none"]
    ELSE LET key == kwargs[1][1]
             value == kwargs[1][2]
         IN  IF key \in DOMAIN RecordFields
             THEN IF FieldSetError(RecordFields[key], value) # "none"
                  THEN [obj |-> obj, err |-> FieldSetError(RecordFields[key], value)]
                  ELSE SetValues([obj EXCEPT ![key] = value], Tail(kwargs))
             ELSE SetValues(obj, Tail(kwargs))

NewRecord(kwargs) == SetValues(EmptyRecord, kwargs)

-----------------------------------------------------------------------------
(* Entity.create_values / Entity.update_values and the bulk writes.        *)

\* bulk_create on a table without the unique_together constraint
bulk_create_unconstrained(values, objs) ==
    IF \E i \in 1..Len(objs) : ValuePrepError(objs[i])
    THEN [values |-> values, err |-> "ValueError: expected a number"]
    ELSE [values |-> values \cup {StoredValue(objs[i]) : i \in 1..Len(objs)},
          err |-> "none"]

\* Value.objects.bulk_create(objs): one INSERT.  A value the column cannot
\* take raises ValueError before the statement runs; a second Value for an
\* (entity, attribute, row_id) triple violates unique_together and the
\* statement inserts nothing.
bulk_create(values, objs) ==
    LET triples == [i \in 1..Len(objs) |-> <<objs[i].attribute, objs[i].row_id>>]
        clash == \/ \E i \in 1..Len(objs) : \E v \in values :
                        <<v.attribute, v.row_id>> = triples[i]
                 \/ \E i, j \in 1..Len(objs) : i # j /\ triples[i] = triples[j]
    IN  IF \E i \in 1..Len(objs) : ValuePrepError(objs[i])
        THEN [values |-> values, err |-> "ValueError: expected a number"]
        ELSE IF clash
        THEN [values |-> values, err |-> "IntegrityError"]
        ELSE [values |-> values \cup {StoredValue(objs[i]) : i \in 1..Len(objs)},
              err |-> "none"]

\* The names Value._meta.get_field resolves.
ValueFieldNames ==
    {"id", "created_at", "updated_at", "active", "entity", "attribute", "row_id"}
        \cup ValueColumns

\* Value.objects.bulk_update(objs, fields): no field names is a ValueError,
\* a name that is no field of Value is FieldDoesNotExist, both raised
\* before anything is written; otherwise the named columns of every obj
\* are written.
bulk_update(values, objs, fields) ==
    LET named == {fields[i] : i \in 1..Len(fields)}
        Written(v) ==
            IF \E i \in 1..Len(objs) :
                    objs[i].attribute = v.attribute /\ objs[i].row_id = v.row_id
            THEN LET o == CHOOSE o \in {objs[i] : i \in 1..Len(objs)} :
                              o.attribute = v.attribute /\ o.row_id = v.row_id
                 IN  [v EXCEPT
                        !.value_string = IF "value_string" \in named
                                         THEN PrepValue("value_string", o.value_string)
                                         ELSE @,
                        !.value_integer = IF "value_integer" \in named
                                          THEN PrepValue("value_integer", o.value_integer)
                                          ELSE @]
            ELSE v
    IN  IF fields = <<>>
        THEN [values |-> values, err |-> "ValueError: field names must be given"]
        ELSE IF named \ ValueFieldNames # {}
        THEN [values |-> values, err |-> "FieldDoesNotExist"]
        ELSE IF \E i \in 1..Len(objs) : ValuePrepError(objs[i])
        THEN [values |-> values, err |-> "ValueError: expected a number"]
        ELSE [values |-> {Written(v) : v \in values}, err |-> "none"]

\* Entity.create_row_id: uuid4() until the Entity has no Value of that row
FreeRowIds(values) == RowIds \ {v.row_id : v \in values}

\* create_values with the unknown keys of the mapping skipped, not refused
create_values_skipping(values, value_data, row_id) ==
    LET known == SelectSeq(value_data, LAMBDA p : p[1] \in AttrSlugs)
        given == [i \in 1..Len(known) |->
                    SetValue(NewValue(known[i][1], row_id), known[i][2])]
        absent == SelectSeq(Attributes, LAMBDA slug : ~DictHas(value_data, slug))
        empty == [i \in 1..Len(absent) |-> NewValue(absent[i], row_id)]
        objs == given \o empty
        made == bulk_create(values, objs)
    IN  IF made.err = "IntegrityError"
        THEN [values |-> values, err |-> "ValueError: duplicate values",
              row_id |-> row_id, objs |-> <<>>]
        ELSE [values |-> made.values, err |-> made.err,
              row_id |-> row_id, objs |-> objs]

\* create_values without the empty Values for the attributes not provided
create_values_given_only(values, value_data, row_id) ==
    LET objs == [i \in 1..Len(value_data) |->
                    SetValue(NewValue(value_data[i][1], row_id), value_data[i][2])]
        made == bulk_create(values, objs)
    IN  IF DictKeys(value_data) \ AttrSlugs # {}
        THEN [values |-> values, err |-> "ValueError: attribute does not exist",
              row_id |-> row_id, objs |-> <<>>]
        ELSE IF made.err = "IntegrityError"
        THEN [values |-> values, err |-> "ValueError: duplicate values",
              row_id |-> row_id, objs |-> <<>>]
        ELSE [values |-> made.values, err |-> made.err,
              row_id |-> row_id, objs |-> objs]

\* create_values with the IntegrityError of bulk_create passed over, as
\* bulk_create(values, ignore_conflicts=True) would
create_values_ignoring_conflicts(values, value_data, row_id) ==
    LET given == [i \in 1..Len(value_data) |->
                    SetValue(NewValue(value_data[i][1], row_id), value_data[i][2])]
        absent == SelectSeq(Attributes, LAMBDA slug : ~DictHas(value_data, slug))
        empty == [i \in 1..Len(absent) |-> NewValue(absent[i], row_id)]
        objs == given \o empty
        made == bulk_create(values, objs)
    IN  IF DictKeys(value_data) \ AttrSlugs # {}
        THEN [values |-> values, err |-> "ValueError: attribute does not exist",
              row_id |-> row_id, objs |-> <<>>]
        ELSE IF made.err = "IntegrityError"
        THEN [values |-> values, err |-> "none", row_id |-> row_id, objs |-> objs]
        ELSE [values |-> made.values, err |-> made.err,
              row_id |-> row_id, objs |-> objs]

\* Entity.create_values(value_data) with the row identifier drawn:
\* [values, err, row_id, objs]
create_values(values, value_data, row_id) ==
    LET given == [i \in 1..Len(value_data) |->
                    SetValue(NewValue(value_data[i][1], row_id), value_data[i][2])]
        absent == SelectSeq(Attributes, LAMBDA slug : ~DictHas(value_data, slug))
        empty == [i \in 1..Len(absent) |-> NewValue(absent[i], row_id)]
        objs == given \o empty
        made == bulk_create(values, objs)
    IN  IF DictKeys(value_data) \ AttrSlugs # {}
        THEN [values |-> values, err |-> "ValueError: attribute does not exist",
              row_id |-> row_id, objs |-> <<>>]
        ELSE IF made.err = "IntegrityError"
        THEN [values |-> values, err |-> "ValueError: duplicate values",
              row_id |-> row_id, objs |-> <<>>]
        ELSE [values |-> made.values, err |-> made.err,
              row_id |-> row_id, objs |-> objs]

\* Entity.update_values(value_data, row_id): [values, err, row_id, objs].
\* updated_value_fields collects the attributes' data types.
update_values(values, value_data, row_id) ==
    LET existing == {v \in values : v.row_id = row_id /\ v.attribute \in AttrSlugs}
        Has(key) == \E v \in existing : v.attribute = key
        Existing(key) == CHOOSE v \in existing : v.attribute = key
        hits == SelectSeq(value_data, LAMBDA p : Has(p[1]))
        misses == SelectSeq(value_data, LAMBDA p : ~Has(p[1]))
        values_to_update == [i \in 1..Len(hits) |->
                                SetValue(Existing(hits[i][1]), hits[i][2])]
        updated_value_fields == [i \in 1..Len(hits) |-> data_type(hits[i][1])]
        values_to_create == [i \in 1..Len(misses) |->
                                SetValue(NewValue(misses[i][1], row_id), misses[i][2])]
        updated == bulk_update(values, values_to_update, updated_value_fields)
        created == bulk_create(updated.values, values_to_create)
    IN  IF DictKeys(value_data) \ AttrSlugs # {}
        THEN [values |-> values, err |-> "ValueError: attribute does not exist",
              row_id |-> row_id, objs |-> <<>>]
        ELSE IF updated.err # "none"
        THEN [values |-> values, err |-> updated.err, row_id |-> row_id, objs |-> <<>>]
        ELSE IF created.err # "none"
        THEN [values |-> updated.values, err |-> created.err,
              row_id |-> row_id, objs |-> <<>>]
        ELSE [values |-> created.values, err |-> "none", row_id |-> row_id,
              objs |-> values_to_update \o values_to_create]

\* ObjectQuerySet.__prepare_values: the Record of the written Values, built
\* from the in-memory Value objects.
prepare_values(row_id, objs) ==
    NewRecord([i \in 1..Len(objs) |-> <<objs[i].attribute, GetValue(objs[i])>>]
                \o <<<<"id", PyStr(row_id)>>>>)

-----------------------------------------------------------------------------
(* class ObjectQuerySet: the builder a Record class carries as `objects`.  *)

VARIABLES
    entity_values,  \* the Value table of the Entity (entity.values)
    query,          \* ObjectQuerySet.query, the builder's Query
    result_cache,   \* ObjectQuerySet.result_cache
    last,           \* the outcome of the latest call, as its caller sees it
    creating,       \* each concurrent caller's place in create_values / update_values
    instance,       \* the __dict__ of a Record whose fields are assigned
    catalog,        \* the Attribute rows of an Entity whose class is built
    record_class    \* the __fields__ of the class build_eav_class returns

\* One builder used by one caller
builder == <<entity_values, query, result_cache, last>>

\* What the other specifications drive
side == <<creating, instance, catalog, record_class>>

vars == <<entity_values, query, result_cache, last, creating, instance, catalog,
          record_class>>

\* The concurrent callers of create_values / update_values
Procs == {"p1", "p2"}

\* A caller outside any call
Idle == [pc |-> "idle", value_data |-> <<>>, row_id |-> "", err |-> "none"]

\* The side variables while they are not in use
SideInit ==
    /\ creating = [p \in Procs |-> Idle]
    /\ instance = <<>>
    /\ catalog = <<>>
    /\ record_class = <<>>

\* result_cache = None
NoCache == [set |-> FALSE, list |-> <<>>]

\* result_cache = [...]
Cache(list) == [set |-> TRUE, list |-> list]

\* The orders in which the table may return a set of row identifiers.
Orders(S) ==
    {o \in [1..Cardinality(S) -> S] : \A i, j \in 1..Cardinality(S) : i # j => o[i] # o[j]}

\* fetch, lines 142-149: the distinct row identifiers of the Values that
\* pass the compiled filters and exclusions
CandidateRows(q, values) ==
    {v.row_id : v \in FilterExclude(values, prepare(q)[1], prepare(q)[2])}

\* fetch, lines 154-163: slug -> typed value over all Values of one row,
\* then the id
RowResult(values, row_id) ==
    LET res == {v \in values : v.row_id = row_id}
        slugs == SelectSeq(Attributes, LAMBDA slug : \E v \in res : v.attribute = slug)
    IN  [i \in 1..Len(slugs) |->
            <<slugs[i], GetValue(CHOOSE v \in res : v.attribute = slugs[i])>>]
        \o <<<<"id", PyStr(row_id)>>>>

RECURSIVE BuildObjects(_, _, _)
\* fetch, lines 161-165: result_cache grows by one Record per row until a
\* Record's construction raises.
BuildObjects(list, values, rows_id) ==
    IF rows_id = <<>> THEN [list |-> list, err |-> "none"]
    ELSE LET made == NewRecord(RowResult(values, Head(rows_id)))
         IN  IF made.err # "none" THEN [list |-> list, err |-> made.err]
             ELSE BuildObjects(Append(list, made.obj), values, Tail(rows_id))

\* ObjectQuerySet.fetch with the table's row order given:
\* [result_cache, err, queries], queries counting the table queries run.
fetch(cache, q, values, rows_id) ==
    IF cache.set THEN [result_cache |-> cache, err |-> "none", queries |-> 0]
    ELSE IF LookupError(prepare(q)[1]) \/ LookupError(prepare(q)[2])
    THEN [result_cache |-> cache, err |-> "ValueError: expected a number", queries |-> 1]
    ELSE IF rows_id = <<>>
    THEN [result_cache |-> NoCache, err |-> "none", queries |-> 1]
    ELSE LET built == BuildObjects(<<>>, values, rows_id)
         IN  [result_cache |-> Cache(built.list), err |-> built.err, queries |-> 1]

\* What a call hands back: an exception, or a value of some kind.
Raised(op, err, queries) ==
    [op |-> op, err |-> err, kind |-> "raise", recs |-> <<>>, n |-> 0,
     queries |-> queries]

Returned(op, kind, recs, n, queries) ==
    [op |-> op, err |-> "none", kind |-> kind, recs |-> recs, n |-> n,
     queries |-> queries]

\* result_cache[index] of __getitem__, after its fetch
getitem(op, cache, index, queries) ==
    IF ~cache.set THEN Returned(op, "None", <<>>, 0, queries)
    ELSE IF index + 1 > Len(cache.list) THEN Raised(op, "IndexError", queries)
    ELSE Returned(op, "Record", <<cache.list[index + 1]>>, 0, queries)

-----------------------------------------------------------------------------
(* The arguments of the calls.                                             *)

\* Sequences of at most n pairs drawn from `pairs`, with distinct keys.
RECURSIVE KwargsUpTo(_, _)
KwargsUpTo(pairs, n) ==
    IF n = 0 THEN {<<>>}
    ELSE LET shorter == KwargsUpTo(pairs, n - 1)
         IN  shorter \cup
             UNION {{Append(kw, p) : p \in {x \in pairs : ~DictHas(kw, x[1])}}
                        : kw \in {k \in shorter : Len(k) = n - 1}}

\* In the order title, pages, author.
Canonical(kw) ==
    \A i, j \in 1..Len(kw) : i < j =>
        \/ kw[i][1] = "title"
        \/ kw[i][1] = "pages" /\ kw[j][1] = "author"

\* A row identifier as the last keyword.
WithId(kws, key, ids) ==
    {kw \o <<<<key, PyStr(r)>>>> : kw \in {k \in kws : Len(k) < MaxCriteria}, r \in ids}

\* filter / exclude / get: criteria on the attributes, of the attribute's
\* type, in either order; a key that is no attribute (author); a row
\* identifier as id, as pk, or as both.
QueryArgs ==
    LET criteria == {kw \in KwargsUpTo({<<"title", PyStr("Dune")>>,
                                        <<"pages", PyInt("412")>>,
                                        <<"author", PyStr("Dune")>>}, MaxCriteria) :
                        DictHas(kw, "author") => Canonical(kw)}
    IN  (criteria \ {<<>>}) \cup WithId(criteria, "id", IdArgs)
            \cup WithId({<<>>}, "pk", IdArgs)
            \cup {kw \in {<<<<"id", PyStr(r)>>, <<"pk", PyStr(r2)>>>> : r, r2 \in IdArgs} :
                    kw[1][2] # kw[2][2]}

\* create / update: a mapping with values of the right type, of the wrong
\* type or None, or with a key that is no attribute
Mappings ==
    {kw \in KwargsUpTo({<<"title", PyStr("Dune")>>, <<"title", PyNone>>,
                        <<"pages", PyInt("412")>>, <<"pages", PyStr("Dune")>>,
                        <<"author", PyStr("Dune")>>}, MaxCriteria) : Canonical(kw)}

\* create(**kwargs): a mapping, a mapping and a row identifier as id, or a
\* mapping and a pk
CreateArgs ==
    (Mappings \ {<<>>}) \cup WithId(Mappings, "id", IdArgs)
        \cup WithId(Mappings, "pk", {"r0"})

\* update(**kwargs): a row identifier and a mapping, or a mapping alone
UpdateArgs == WithId(Mappings, "id", IdArgs) \cup {<<<<"pages", PyInt("412")>>>>}

\* __getitem__(index)
Indexes == 0..MaxRows

-----------------------------------------------------------------------------
(* The calls.                                                              *)

Init ==
    /\ entity_values = {}
    /\ query = NewQuery
    /\ result_cache = NoCache
    /\ last = Returned("EAV", "class", <<>>, 0, 0)
    /\ SideInit

\* EAV(entity_slug) -> build_eav_class: a new Record class, whose objects
\* is a new ObjectQuerySet with a new Query.
EAV ==
    /\ query' = NewQuery
    /\ result_cache' = NoCache
    /\ last' = Returned("EAV", "class", <<>>, 0, 0)
    /\ UNCHANGED entity_values

\* The builder holds at most MaxCriteria criteria.
Bounded(q) == Len(q.query) + Len(q.negated_query) <= MaxCriteria

\* ObjectQuerySet._clone(**kwargs), returning self
Clone(op, kwargs, negate) ==
    LET upd == QueryUpdate(query, kwargs, negate)
    IN  /\ Bounded(upd.q)
        /\ query' = upd.q
        /\ last' = IF upd.err # "none" THEN Raised(op, upd.err, 0)
                   ELSE Returned(op, "self", <<>>, 0, 0)
        /\ UNCHANGED <<entity_values, result_cache>>

\* ObjectQuerySet.all()
All == Clone("all", <<>>, FALSE)

\* ObjectQuerySet.filter(**kwargs)
Filter == \E kwargs \in QueryArgs : Clone("filter", kwargs, FALSE)

\* ObjectQuerySet.exclude(**kwargs)
Exclude == \E kwargs \in QueryArgs : Clone("exclude", kwargs, TRUE)

\* What an accessor makes of result_cache after its fetch(): fetch returns
\* self; __iter__ the list, iter([]) for None; __len__ and count the length,
\* 0 for None; __bool__ bool(result_cache), as 0 or 1.
AccessResult(op, c, queries) ==
    CASE op = "fetch" -> Returned(op, "self", <<>>, 0, queries)
      [] op = "__iter__" -> Returned(op, "list", c.list, 0, queries)
      [] op \in {"__len__", "count"} -> Returned(op, "int", <<>>, Len(c.list), queries)
      [] op = "__bool__" ->
            Returned(op, "bool", <<>>, IF c.set /\ c.list # <<>> THEN 1 ELSE 0, queries)

\* An accessor: fetch(), then what the accessor makes of result_cache.
Access(op) ==
    \E rows_id \in Orders(CandidateRows(query, entity_values)) :
        LET f == fetch(result_cache, query, entity_values, rows_id)
        IN  /\ result_cache' = f.result_cache
            /\ last' = IF f.err # "none" THEN Raised(op, f.err, f.queries)
                       ELSE AccessResult(op, f.result_cache, f.queries)
            /\ UNCHANGED <<entity_values, query>>

\* ObjectQuerySet.fetch()
Fetch == Access("fetch")

\* ObjectQuerySet.__iter__
Iter == Access("__iter__")

\* ObjectQuerySet.__len__
Length == Access("__len__")

\* ObjectQuerySet.count()
Count == Access("count")

\* ObjectQuerySet.__bool__
Bool == Access("__bool__")

\* ObjectQuerySet.__getitem__(index)
GetItem ==
    \E index \in Indexes :
    \E rows_id \in Orders(CandidateRows(query, entity_values)) :
        LET f == fetch(result_cache, query, entity_values, rows_id)
        IN  /\ result_cache' = f.result_cache
            /\ last' = IF f.err # "none" THEN Raised("__getitem__", f.err, f.queries)
                       ELSE getitem("__getitem__", f.result_cache, index, f.queries)
            /\ UNCHANGED <<entity_values, query>>

\* ObjectQuerySet.get(**kwargs): self._clone(**kwargs).fetch()[0]
GetCall(kwargs) ==
    LET upd == QueryUpdate(query, kwargs, FALSE)
    IN  IF upd.err # "none"
        THEN /\ Bounded(upd.q)
             /\ query' = upd.q
             /\ last' = Raised("get", upd.err, 0)
             /\ UNCHANGED <<entity_values, result_cache>>
        ELSE \E rows_id \in Orders(CandidateRows(upd.q, entity_values)) :
                LET f1 == fetch(result_cache, upd.q, entity_values, rows_id)
                    f2 == fetch(f1.result_cache, upd.q, entity_values, rows_id)
                IN  /\ Bounded(upd.q)
                    /\ query' = upd.q
                    /\ UNCHANGED entity_values
                    /\ IF f1.err # "none"
                       THEN /\ result_cache' = f1.result_cache
                            /\ last' = Raised("get", f1.err, f1.queries)
                       ELSE /\ result_cache' = f2.result_cache
                            /\ last' = IF f2.err # "none"
                                       THEN Raised("get", f2.err, f1.queries + f2.queries)
                                       ELSE getitem("get", f2.result_cache, 0,
                                                    f1.queries + f2.queries)

Get == \E kwargs \in QueryArgs : GetCall(kwargs)

\* ObjectQuerySet.__update(**kwargs), then __prepare_values
UpdateCall(op, kwargs) ==
    IF ~DictHas(kwargs, "id")
    THEN /\ last' = Raised(op, "KeyError", 0)
         /\ UNCHANGED <<entity_values, query, result_cache>>
    ELSE LET row_id == DictGet(kwargs, "id").repr
             rest == DictPop(kwargs, "id")
             upd == QueryUpdate(query, rest, FALSE)
             done == update_values(entity_values, rest, row_id)
             made == prepare_values(row_id, done.objs)
         IN  /\ Bounded(upd.q)
             /\ query' = upd.q
             /\ UNCHANGED result_cache
             /\ IF upd.err # "none"
                THEN /\ last' = Raised(op, upd.err, 0)
                     /\ UNCHANGED entity_values
                ELSE /\ entity_values' = done.values
                     /\ last' = IF done.err # "none" THEN Raised(op, done.err, 0)
                                ELSE IF made.err # "none" THEN Raised(op, made.err, 0)
                                ELSE Returned(op, "Record", <<made.obj>>, 0, 0)

\* ObjectQuerySet.update(**kwargs)
Update == \E kwargs \in UpdateArgs : UpdateCall("update", kwargs)

\* ObjectQuerySet.__create(**kwargs), then __prepare_values: a call with an
\* id is an update; otherwise the builder gets a new Query, the mapping is
\* added to it as filter criteria, and the Values are written.
CreateCall(kwargs) ==
    IF Truthy(DictGet(kwargs, "id"))
    THEN UpdateCall("create", kwargs)
    ELSE LET upd == QueryUpdate(NewQuery, kwargs, FALSE)
         IN  /\ query' = upd.q
             /\ UNCHANGED result_cache
             /\ IF upd.err # "none"
                THEN /\ last' = Raised("create", upd.err, 0)
                     /\ UNCHANGED entity_values
                ELSE \E row_id \in FreeRowIds(entity_values) :
                        LET done == create_values(entity_values, kwargs, row_id)
                            made == prepare_values(row_id, done.objs)
                        IN  /\ entity_values' = done.values
                            /\ last' = IF done.err # "none"
                                       THEN Raised("create", done.err, 0)
                                       ELSE IF made.err # "none"
                                       THEN Raised("create", made.err, 0)
                                       ELSE Returned("create", "Record", <<made.obj>>, 0, 0)

\* ObjectQuerySet.create(**kwargs)
Create == \E kwargs \in CreateArgs : CreateCall(kwargs)

Next ==
    \/ EAV /\ UNCHANGED side
    \/ All /\ UNCHANGED side
    \/ Filter /\ UNCHANGED side
    \/ Exclude /\ UNCHANGED side
    \/ Get /\ UNCHANGED side
    \/ Fetch /\ UNCHANGED side
    \/ Iter /\ UNCHANGED side
    \/ Length /\ UNCHANGED side
    \/ Count /\ UNCHANGED side
    \/ Bool /\ UNCHANGED side
    \/ GetItem /\ UNCHANGED side
    \/ Create /\ UNCHANGED side
    \/ Update /\ UNCHANGED side

Spec == Init /\ [][Next]_vars

-----------------------------------------------------------------------------
(* build_eav_class on an Entity whose attributes the Schema Catalog has    *)
(* been given one by one.                                                  *)

\* Most attributes an Entity is given
MaxAttributes == 2

\* The Attribute rows the catalog may be given: slug, data_type, required
AttributeRows ==
    [slug : {"title", "pages", "id"}, data_type : {"string", "integer"},
     required : BOOLEAN]

\* Entity._get_fields of an Entity with the Attribute rows attrs
get_fields(attrs) ==
    <<[name |-> "id", data_type |-> "string", required |-> TRUE]>> \o
    [i \in 1..Len(attrs) |->
        [name |-> attrs[i].slug, data_type |-> attrs[i].data_type,
         required |-> attrs[i].required]]

\* init_field(field): Field(name, DATA_TYPES_MAP.get(data_type, str), required)
InitField(f) ==
    [name |-> f.name, field_type |-> DATA_TYPES_MAP(f.data_type),
     required |-> f.required]

\* build_eav_class with the assignment fields["id"] = pk left out
build_eav_class_without_pk(attrs) ==
    LET fs == get_fields(attrs)
        Latest(n) == CHOOSE i \in 1..Len(fs) :
                        fs[i].name = n /\ \A j \in 1..Len(fs) : fs[j].name = n => j <= i
    IN  [n \in {fs[i].name : i \in 1..Len(fs)} |-> InitField(fs[Latest(n)])]

\* build_eav_class(entity): __fields__, a Field per name of _get_fields (a
\* later entry of a name replaces an earlier one), then the id Field
build_eav_class(attrs) ==
    LET fs == get_fields(attrs)
        Latest(n) == CHOOSE i \in 1..Len(fs) :
                        fs[i].name = n /\ \A j \in 1..Len(fs) : fs[j].name = n => j <= i
    IN  [n \in {fs[i].name : i \in 1..Len(fs)} \cup {"id"} |->
            IF n = "id" THEN [name |-> "id", field_type |-> "str", required |-> TRUE]
            ELSE InitField(fs[Latest(n)])]

ClassInit ==
    /\ entity_values = {}
    /\ query = NewQuery
    /\ result_cache = NoCache
    /\ last = Returned("Entity", "entity", <<>>, 0, 0)
    /\ SideInit

\* Attribute(entity=entity, ...).save(): one more attribute, its slug new
\* to the Entity
AddAttribute ==
    /\ Len(catalog) < MaxAttributes
    /\ \E row \in AttributeRows :
        /\ \A i \in 1..Len(catalog) : catalog[i].slug # row.slug
        /\ catalog' = Append(catalog, row)
    /\ UNCHANGED <<entity_values, query, result_cache, last, creating, instance,
                   record_class>>

\* EAV(entity_slug): build_eav_class(entity)
BuildClass ==
    /\ record_class' = build_eav_class(catalog)
    /\ UNCHANGED <<entity_values, query, result_cache, last, creating, instance,
                   catalog>>

ClassNext == AddAttribute \/ BuildClass

SpecClass == ClassInit /\ [][ClassNext]_vars

-----------------------------------------------------------------------------
(* Assignments to the fields of one Record instance.                       *)

\* The values a caller assigns
FieldValues ==
    {PyNone, PyStr("Dune"), PyStr("Emma"), PyInt("412"), PyInt("7"), PyBool("True")}

\* Field.__get__(instance, owner): instance.__dict__.get(name, default)
FieldGet(obj, name) == obj[name]

RecordInit ==
    /\ entity_values = {}
    /\ query = NewQuery
    /\ result_cache = NoCache
    /\ last = Returned("__init__", "Record", <<>>, 0, 0)
    /\ creating = [p \in Procs |-> Idle]
    /\ instance = EmptyRecord
    /\ catalog = <<>>
    /\ record_class = <<>>

\* instance.<name> = value: Field.__set__(instance, value)
SetAttr(name, value) ==
    LET err == FieldSetError(RecordFields[name], value)
    IN  /\ instance' = IF err = "none" THEN [instance EXCEPT ![name] = value]
                       ELSE instance
        /\ last' = IF err = "none" THEN Returned("__set__", name, <<>>, 0, 0)
                   ELSE Raised("__set__", err, 0)
        /\ UNCHANGED <<entity_values, query, result_cache, creating, catalog,
                       record_class>>

FieldSet == \E name \in DOMAIN RecordFields : \E value \in FieldValues : SetAttr(name, value)

\* instance.<name>: Field.__get__(instance, owner)
FieldRead ==
    \E name \in DOMAIN RecordFields :
        /\ last' = Returned("__get__", name, <<FieldGet(instance, name)>>, 0, 0)
        /\ UNCHANGED <<entity_values, query, result_cache, creating, instance,
                       catalog, record_class>>

RecordNext == FieldSet \/ FieldRead

SpecRecord == RecordInit /\ [][RecordNext]_vars

-----------------------------------------------------------------------------
(* Entity.create_values and Entity.update_values called by concurrent      *)
(* callers.  create_row_id reads the table, bulk_create writes it later:   *)
(* other callers run in between.                                           *)

\* The identifiers uuid4() draws for the concurrent callers
Candidates == {RowIdPool[i] : i \in 1..(MaxRows + 1)}

\* The mappings the concurrent callers pass
ConcurrentMappings == {kw \in Mappings : Len(kw) <= 1}

\* The builder is not in use
ConcurrentInit ==
    /\ entity_values = {}
    /\ query = NewQuery
    /\ result_cache = NoCache
    /\ last = Returned("EAV", "class", <<>>, 0, 0)
    /\ SideInit

\* create_values, line 54: create_row_id has found an identifier that no
\* Value of the Entity has at this moment
CreateRowId(p) ==
    /\ creating[p].pc = "idle"
    /\ \E value_data \in ConcurrentMappings :
       \E row_id \in Candidates \ {v.row_id : v \in entity_values} :
            creating' = [creating EXCEPT ![p] =
                            [pc |-> "create_values", value_data |-> value_data,
                             row_id |-> row_id, err |-> "none"]]
    /\ UNCHANGED <<entity_values, query, result_cache, last, instance, catalog,
                   record_class>>

\* create_values, lines 55-73: the Values are built and written with the
\* identifier found earlier
BulkCreate(p) ==
    /\ creating[p].pc = "create_values"
    /\ LET done == create_values(entity_values, creating[p].value_data,
                                 creating[p].row_id)
       IN  /\ entity_values' = done.values
           /\ creating' = [creating EXCEPT ![p] =
                            [pc |-> IF done.err = "none" THEN "created" ELSE "raised",
                             value_data |-> creating[p].value_data,
                             row_id |-> creating[p].row_id, err |-> done.err]]
    /\ UNCHANGED <<query, result_cache, last, instance, catalog, record_class>>

\* update_values(value_data, row_id): its reads and its writes, none of
\* which another caller can split from the outcome
UpdateValues(p) ==
    /\ creating[p].pc = "idle"
    /\ \E value_data \in ConcurrentMappings : \E row_id \in Candidates :
            LET done == update_values(entity_values, value_data, row_id)
            IN  /\ entity_values' = done.values
                /\ creating' = [creating EXCEPT ![p] =
                                [pc |-> IF done.err = "none" THEN "updated" ELSE "raised",
                                 value_data |-> value_data, row_id |-> row_id,
                                 err |-> done.err]]
    /\ UNCHANGED <<query, result_cache, last, instance, catalog, record_class>>

\* The call is over; the caller may call again.
Return(p) ==
    /\ creating[p].pc \in {"created", "updated", "raised"}
    /\ creating' = [creating EXCEPT ![p] = Idle]
    /\ UNCHANGED <<entity_values, query, result_cache, last, instance, catalog,
                   record_class>>

ConcurrentNext ==
    \E p \in Procs :
        \/ CreateRowId(p)
        \/ BulkCreate(p)
        \/ UpdateValues(p)
        \/ Return(p)

SpecConcurrent == ConcurrentInit /\ [][ConcurrentNext]_vars

-----------------------------------------------------------------------------
(* Properties.                                                             *)

\* The calls that read the result: fetch and the accessors built on it.
AccessorOps == {"fetch", "__iter__", "__len__", "count", "__bool__", "__getitem__"}

\* The row identifiers in the table.
Rows(values) == {v.row_id : v \in values}

\* Row row_id has a Value of attribute slug holding value.
HasValue(values, row_id, slug, value) ==
    \E v \in values : v.row_id = row_id /\ v.attribute = slug /\ GetValue(v) = value

\* The latest call ran the materialization against the table and finished.
Materialized ==
    /\ last.op \in AccessorOps \cup {"get"}
    /\ last.err = "none"
    /\ last.queries > 0

\* The row identifiers of the Records in result_cache.
CachedRows == {result_cache.list[i]["id"].repr : i \in 1..Len(result_cache.list)}

\* C1: create(**V) followed by get(id=R), R the identifier create returned,
\* returns the Record create returned: id R, V's values, None for the rest.
C1_RoundTrip ==
    [][(last.op = "create" /\ last.kind = "Record") =>
        \A kwargs \in QueryArgs :
            (kwargs = <<<<"id", last.recs[1]["id"]>>>> /\ GetCall(kwargs)) =>
                (last'.kind = "Record" /\ last'.recs = last.recs)]_vars

\* C2: with no row identifier excluded, no materialized row has a Value
\* matching one of the exclusion criteria in effect.
C2_ExcludedRowAbsent ==
    (Materialized /\ query.negated_query_id = PyNone) =>
        \A row_id \in CachedRows :
            \A i \in 1..Len(query.negated_query) :
                ~HasValue(entity_values, row_id,
                          query.negated_query[i][1], query.negated_query[i][2])

\* C3: with two or more filter criteria and no exclusion, the materialized
\* rows are exactly the rows having, for every criterion (k, v), a Value of
\* attribute k equal to v.
C3_CriteriaAreAnded ==
    (/\ Materialized
     /\ Len(query.query) >= 2
     /\ query.negated_query = <<>>
     /\ query.negated_query_id = PyNone)
    => CachedRows =
            {row_id \in Rows(entity_values) :
                \A i \in 1..Len(query.query) :
                    HasValue(entity_values, row_id, query.query[i][1], query.query[i][2])}

\* C4: filter(id=R) on a builder with no row identifier set compiles to a
\* positive predicate with row_id = R and an exclusion predicate without
\* row_id, and leaves no id key among the filter criteria.
C4_PositiveIdSelectsRow ==
    [][\A r \in IdArgs :
        (/\ query.negated_query_id = PyNone
         /\ Clone("filter", <<<<"id", PyStr(r)>>>>, FALSE))
        => (/\ DictGet(prepare(query')[1], "row_id") = PyStr(r)
            /\ ~DictHas(prepare(query')[2], "row_id")
            /\ ~DictHas(query'.query, "id"))]_vars

\* C5: a get that queried the table and found no row matching the criteria
\* raises DoesNotExist.
C5_GetRaisesDoesNotExist ==
    (/\ last.op = "get"
     /\ last.queries > 0
     /\ ~LookupError(prepare(query)[1])
     /\ CandidateRows(query, entity_values) = {})
    => last.err = "DoesNotExist"

\* A mapping that omits the required attribute, gives None for it, or gives
\* an attribute a value of another type than the attribute's.
InvalidMapping(kwargs) ==
    \/ \E slug \in AttrSlugs : required(slug) /\ DictGet(kwargs, slug) = PyNone
    \/ \E i \in 1..Len(kwargs) :
        /\ kwargs[i][1] \in AttrSlugs
        /\ kwargs[i][2] # PyNone
        /\ kwargs[i][2].type # DATA_TYPES_MAP(data_type(kwargs[i][1]))

\* C6: a create whose mapping omits the required attribute, gives None for
\* it or gives a value of the wrong type raises and leaves the Value table
\* as it was.
C6_InvalidCreateWritesNothing ==
    [][\A kwargs \in CreateArgs :
        (/\ ~DictHas(kwargs, "id")
         /\ DictKeys(kwargs) \subseteq AttrSlugs
         /\ InvalidMapping(kwargs)
         /\ CreateCall(kwargs))
        => (last'.err # "none" /\ entity_values' = entity_values)]_vars

\* C7: update(**M, id=R) on an existing row R, M a mapping of attributes to
\* values of their types, leaves for every key k of M a Value of (R, k)
\* holding M[k], and every other Value as it was.
C7_UpdateSetsValues ==
    [][\A kwargs \in UpdateArgs :
        LET row_id == DictGet(kwargs, "id").repr
            M == DictPop(kwargs, "id")
        IN  (/\ DictHas(kwargs, "id")
             /\ row_id \in Rows(entity_values)
             /\ M # <<>>
             /\ DictKeys(M) \subseteq AttrSlugs
             /\ \A i \in 1..Len(M) :
                    M[i][2].type = DATA_TYPES_MAP(data_type(M[i][1]))
             /\ UpdateCall("update", kwargs))
            => (/\ \A i \in 1..Len(M) :
                        HasValue(entity_values', row_id, M[i][1], M[i][2])
                /\ {v \in entity_values' :
                        v.row_id # row_id \/ v.attribute \notin DictKeys(M)}
                   = {v \in entity_values :
                        v.row_id # row_id \/ v.attribute \notin DictKeys(M)})]_vars

\* C8: an accessor that follows a finished accessor on the same builder,
\* with no call in between, does not query the table again.
C8_MaterializedOnce ==
    [][(/\ last.op \in AccessorOps
        /\ last.err = "none"
        /\ last'.op \in AccessorOps)
       => last'.queries = 0]_vars

\* C9: a filter or exclude call that raises FieldError leaves the dict it
\* was adding to empty, the other dict as it was, and the row identifier
\* slots as they were.
C9_FailedFilterLeavesNothing ==
    [][\A kwargs \in QueryArgs : \A negate \in BOOLEAN :
        (/\ Clone(IF negate THEN "exclude" ELSE "filter", kwargs, negate)
         /\ last'.err = "FieldError")
        => (/\ query'.query = IF negate THEN query.query ELSE <<>>
            /\ query'.negated_query = IF negate THEN <<>> ELSE query.negated_query
            /\ query'.query_id = query.query_id
            /\ query'.negated_query_id = query.negated_query_id)]_vars

\* The create and update calls whose mapping, the id that selects the row
\* apart, has a key that is no attribute
UnknownKeyArgs ==
    {kwargs \in CreateArgs \cup UpdateArgs :
        DictKeys(DictPop(kwargs, "id")) \ AttrSlugs # {}}

\* C10: a create or update whose mapping has a key that is no attribute of
\* the Entity raises and leaves the Value table as it was.
C10_UnknownKeyWritesNothing ==
    [][(last'.op \in {"create", "update"}) =>
        \A kwargs \in UnknownKeyArgs :
            (CreateCall(kwargs) \/ UpdateCall("update", kwargs))
            => (last'.err # "none" /\ entity_values' = entity_values)]_vars

\* C10: a create with a valid title and an unknown key has raised, with a
\* row in the table.
C10_Witness ==
    /\ last.op \in {"create", "update"}
    /\ last.err \in {"FieldError", "ValueError: attribute does not exist"}
    /\ entity_values # {}

\* C11: the table never holds two Values for one (attribute, row
\* identifier) pair of the Entity, whatever create and update calls run and
\* however their steps interleave; a write that would add a second one
\* raises and writes nothing.
C11_UniqueTogether ==
    \A v, w \in entity_values :
        (v.attribute = w.attribute /\ v.row_id = w.row_id) => v = w

\* C11: a create_values call has been refused as a duplicate while the
\* table holds the row another caller wrote with the same identifier.
C11_Witness ==
    \E p \in Procs :
        /\ creating[p].err = "ValueError: duplicate values"
        /\ \E v \in entity_values :
                /\ v.row_id = creating[p].row_id
                /\ v.attribute = "title"
                /\ GetValue(v) # DictGet(creating[p].value_data, "title")

\* The value is of the Python type the field's data type stands for.
OfDeclaredType(value, field) == value.type = field.field_type

\* C12: assigning None to a required field raises ValueError and a value
\* that is not of the field's declared type raises TypeError, the field
\* keeping its value in both cases; assigning a value of the declared type
\* succeeds and the field then reads as that value.
C12_FieldSet ==
    [][\A name \in DOMAIN RecordFields : \A value \in FieldValues :
        SetAttr(name, value) =>
            LET field == RecordFields[name]
            IN  /\ (value = PyNone /\ field.required) =>
                        /\ last'.err = "ValueError: field is required"
                        /\ FieldGet(instance', name) = FieldGet(instance, name)
                /\ (value # PyNone /\ ~OfDeclaredType(value, field)) =>
                        /\ last'.err = "TypeError"
                        /\ FieldGet(instance', name) = FieldGet(instance, name)
                /\ (value # PyNone /\ OfDeclaredType(value, field)) =>
                        /\ last'.err = "none"
                        /\ FieldGet(instance', name) = value]_vars

\* C13: the class build_eav_class returns for an Entity has a field for
\* every attribute slug and for id, and no other; id is a required str
\* field and every other field has its Attribute's required flag.
C13_FieldSet ==
    [][BuildClass =>
        /\ DOMAIN record_class' = {catalog[i].slug : i \in 1..Len(catalog)} \cup {"id"}
        /\ record_class'["id"] = [name |-> "id", field_type |-> "str", required |-> TRUE]
        /\ \A i \in 1..Len(catalog) :
                catalog[i].slug # "id" =>
                    record_class'[catalog[i].slug].required = catalog[i].required]_vars

\* C13: a class has been built for an Entity with an attribute of slug id
\* that is no required string, and one more attribute.
C13_Witness ==
    /\ Len(catalog) = 2
    /\ \E i \in 1..Len(catalog) :
            /\ catalog[i].slug = "id"
            /\ catalog[i].data_type = "integer"
            /\ ~catalog[i].required
    /\ DOMAIN record_class = {catalog[i].slug : i \in 1..Len(catalog)}

\* C14: objects.all() called after a filter, exclude or get call on the
\* same objects starts a query of its own: no criterion and no row
\* identifier of the earlier query is in effect, and no cached result.
C14_QueryScoped ==
    [][(last.op \in {"filter", "exclude", "get"} /\ All) =>
        (query' = NewQuery /\ result_cache' = NoCache)]_vars

\* C15: an accessor that follows a filter call on a builder whose result
\* was materialized before that call reads only rows that have, for every
\* filter criterion the builder holds, a Value of that attribute equal to
\* the criterion's value.
C15_NarrowsAfterMaterialization ==
    [][(/\ last.op = "filter"
        /\ last.err = "none"
        /\ result_cache.set
        /\ last'.op \in AccessorOps
        /\ last'.err = "none")
       => \A row_id \in CachedRows' : \A i \in 1..Len(query.query) :
            HasValue(entity_values, row_id, query.query[i][1], query.query[i][2])]_vars

\* C16: a create or update call that returns leaves the builder's filter
\* criteria, exclusion criteria, row identifier slots and cached result as
\* they were.
C16_MutationsLeaveQuery ==
    [][(last'.op \in {"create", "update"} /\ last'.err = "none") =>
        (query' = query /\ result_cache' = result_cache)]_vars

\* C17: every row identifier in the table has a Value for every attribute
\* of the Entity, after any create and update calls, an update with a row
\* identifier no create returned among them.
C17_RowsAreComplete ==
    \A row_id \in Rows(entity_values) : \A slug \in AttrSlugs :
        \E v \in entity_values : v.row_id = row_id /\ v.attribute = slug

\* C17: an update whose row identifier no create returned has passed the
\* key checks and run its writes, while the table holds a row.
C17_Witness ==
    /\ last.op = "update"
    /\ last.err = "ValueError: field names must be given"
    /\ entity_values # {}
    /\ "r0" \notin Rows(entity_values)

\* C18: filter(id=A) on a builder that excludes row B, A and B different,
\* leaves the compiled predicates selecting row A and excluding row B.
C18_IndependentIdSlots ==
    [][\A A \in IdArgs : \A B \in IdArgs \ {A} :
        (/\ last.op = "exclude"
         /\ last.err = "none"
         /\ DictGet(prepare(query)[2], "row_id") = PyStr(B)
         /\ Clone("filter", <<<<"id", PyStr(A)>>>>, FALSE))
        => (/\ DictGet(prepare(query')[1], "row_id") = PyStr(A)
            /\ DictGet(prepare(query')[2], "row_id") = PyStr(B))]_vars

\* C19: update(**M, id=R), M a mapping of attributes to values of their
\* types of which some key has no Value on row R, leaves exactly one Value
\* of (R, k) for every key k of M, and that Value holds M[k].
C19_UpdateCreatesMissing ==
    [][\A kwargs \in UpdateArgs :
        LET row_id == DictGet(kwargs, "id").repr
            M == DictPop(kwargs, "id")
            OnRow(values, k) == {v \in values : v.row_id = row_id /\ v.attribute = k}
        IN  (/\ DictHas(kwargs, "id")
             /\ M # <<>>
             /\ DictKeys(M) \subseteq AttrSlugs
             /\ \A i \in 1..Len(M) :
                    M[i][2].type = DATA_TYPES_MAP(data_type(M[i][1]))
             /\ \E i \in 1..Len(M) : OnRow(entity_values, M[i][1]) = {}
             /\ UpdateCall("update", kwargs))
            => \A i \in 1..Len(M) :
                    /\ Cardinality(OnRow(entity_values', M[i][1])) = 1
                    /\ HasValue(entity_values', row_id, M[i][1], M[i][2])]_vars

\* C20: a create_values call that returns normally has written a row
\* identifier no row had; a call whose identifier another caller's row
\* has taken since create_row_id found it free raises, with the
\* duplicate-values error when its mapping could be stored, and writes
\* nothing.
C20_OneCreatePerRow ==
    [][\A p \in Procs :
        BulkCreate(p) =>
            LET c == creating[p]
                taken == c.row_id \in Rows(entity_values)
                storable ==
                    /\ DictKeys(c.value_data) \subseteq AttrSlugs
                    /\ \A i \in 1..Len(c.value_data) :
                            ~ValuePrepError(SetValue(NewValue(c.value_data[i][1], c.row_id),
                                                     c.value_data[i][2]))
            IN  /\ creating'[p].pc = "created" => ~taken
                /\ taken => /\ creating'[p].pc = "raised"
                            /\ entity_values' = entity_values
                /\ (taken /\ storable) =>
                        creating'[p].err = "ValueError: duplicate values"]_vars

\* C20: two callers found the same identifier free; one has created the
\* row and the other has been refused as a duplicate.
C20_Witness ==
    \E p, q \in Procs :
        /\ creating[p].pc = "created"
        /\ creating[q].pc = "raised"
        /\ creating[q].err = "ValueError: duplicate values"
        /\ creating[q].row_id = creating[p].row_id

\* C21: whatever create and update calls have run, those that raised among
\* them, fetch and the accessors and get built on it never raise a
\* Record validation error (the ValueError of a required field set to
\* None, the TypeError of a value of the wrong type).
C21_FetchNeverRaisesValidation ==
    (last.op \in AccessorOps \cup {"get"}) =>
        last.err \notin {"ValueError: field is required", "TypeError"}

====
